---- MODULE Spec2Model ----
(***************************************************************************)
(* A model of the merged backend (contact form, chatbot, blog management). *)
(* Every HTTP handler is one action; a handler that awaits (the contact    *)
(* form's sendMail, the chatbot's fetch) is split at its await.  Handlers  *)
(* of a Node process run to completion between awaits, so a handler        *)
(* without an await is atomic.                                             *)
(*                                                                         *)
(* Seven specifications share the module:                                  *)
(*   SpecContact  GET /api/token and POST /api/send-email                  *)
(*   SpecChat     POST /api/chat                                           *)
(*   SpecAuth     admin login, credentials and their expiry, the           *)
(*                protected routes under issued and forged credentials     *)
(*   SpecStore    the blog store under an authenticated admin              *)
(*   SpecNotify   publishing, subscribers and the notification timers      *)
(*   SpecFault    the blog store on a file system whose reads or writes    *)
(*                can throw                                                *)
(*   SpecRace     store requests in flight together, their handlers        *)
(*                followed from the read of the file to the response       *)
(***************************************************************************)
EXTENDS Integers, Sequences, FiniteSets, TLC

VARIABLES
    \* ---- contact form
    tokenStore,     \* own properties of the tokenStore object: token -> Date.now()
    uuidCount,      \* number of crypto.randomUUID() calls made so far
    contactLog,     \* POST /api/send-email requests handled: token, document, status
    mailCalls,      \* invocations of transporter.sendMail, in order
    uploads,        \* temporary files multer left in uploads/ (by request index)
    \* ---- chatbot
    chatPc,         \* "idle", "fetching" (awaiting the external API) or "done"
    chatMsg,        \* req.body.message of the request followed
    chatDate,       \* the day that request is made on
    chatResp,       \* its response: status and reply
    fetchCalls,     \* calls of the external API made for it
    apiKey,         \* process.env.GEMINI_API_KEY
    \* ---- admin, blog store, subscribers, notifications
    now,            \* the clock, in ticks of five minutes since the start
    issued,         \* the credentials POST /api/admin/login has returned
    blogsFile,      \* blogs.json: whether it exists, and the posts in it
    subscribersFile,\* subscribers.json: whether it exists, and the emails in it
    timers,         \* pending setTimeout callbacks, in the order they were set
    timerCount,     \* number of setTimeout calls made so far
    blogResp,       \* the last response of an admin, blog or subscribe route
    \* ---- the environment of the blog store
    blogsFault,     \* the error, if any, the file system answers accesses of blogs.json with
    running,        \* the request whose handler is on the call stack, 0 if none is
    reqs            \* store requests followed through their handlers, step by step

contactVars == <<tokenStore, contactLog, uploads>>

chatVars == <<chatPc, chatMsg, chatDate, chatResp, fetchCalls, apiKey>>

blogVars == <<now, issued, blogsFile, subscribersFile, timers, timerCount, blogResp>>

envVars == <<blogsFault, running, reqs>>

vars == <<uuidCount, mailCalls, contactVars, chatVars, blogVars, envVars>>

(***************************************************************************)
(* Bounds of the model.                                                    *)
(***************************************************************************)
MaxTokens == 2      \* GET /api/token requests
MaxContact == 3     \* POST /api/send-email requests
\* SpecAuth
MaxAuthLogins == 1  \* credentials issued
MaxAuthPosts == 1   \* posts created
MaxAuthTimers == 1  \* timers set
MaxAuthSteps == 3   \* steps of the clock
AuthStep == 6       \* ticks in a step of the clock: half an hour
\* SpecStore
MaxStorePosts == 2  \* posts created
MaxStoreTimers == 1 \* timers set
\* SpecNotify
MaxNotifyPosts == 1     \* posts created
MaxNotifyTimers == 2    \* timers set
MaxNotifyTime == 2      \* ticks of the clock
MaxSubscribers == 2     \* stored subscribers
\* SpecFault
MaxFaultPosts == 2      \* posts created
\* SpecRace
MaxRaceRequests == 3    \* requests followed

(***************************************************************************)
(* JavaScript values.                                                      *)
(***************************************************************************)
\* The value of a field the request does not carry.
Undefined == "<undefined>"

\* Date.now() of the (only) instant the contact model runs in: a positive number.
StartTime == 1

\* crypto.randomUUID(): the n-th call returns the n-th element; a v4 UUID is
\* 122 random bits, so no two calls return the same string and no caller
\* guesses one before it is issued.
UuidPool == <<"u1", "u2", "u3", "u4", "u5", "u6", "u7", "u8">>
randomUUID(n) == UuidPool[n + 1]

\* A well-formed UUID that randomUUID never returns.
ForeignUuid == "u0"

\* The properties every object literal {} inherits from Object.prototype.
ObjectPrototypeKeys ==
    {"constructor", "__proto__", "toString", "toLocaleString", "valueOf",
     "hasOwnProperty", "isPrototypeOf", "propertyIsEnumerable"}

\* ToPropertyKey: obj[undefined] reads the property named "undefined".
ToKey(v) == IF v = Undefined THEN "undefined" ELSE v

\* Where obj[key] finds its value, for an object literal: an own property,
\* else a member of Object.prototype, else nowhere (undefined).
Lookup(obj, key) ==
    IF ToKey(key) \in DOMAIN obj THEN "own"
    ELSE IF ToKey(key) \in ObjectPrototypeKeys THEN "inherited"
    ELSE "undefined"

\* !!tokenStore[token]: an own value is a timestamp, truthy unless 0; the
\* members of Object.prototype are functions and objects, all truthy.
HasTruthy(obj, key) ==
    CASE Lookup(obj, key) = "own" -> obj[ToKey(key)] # 0
      [] Lookup(obj, key) = "inherited" -> TRUE
      [] OTHER -> FALSE

\* obj[key] = value
SetKey(obj, key, value) == (ToKey(key) :> value) @@ obj

DeleteKeyNoop(obj, key) == obj

\* delete obj[key]: removes an own property, nothing else.
DeleteKey(obj, key) == [k \in DOMAIN obj \ {ToKey(key)} |-> obj[k]]

(***************************************************************************)
(* Contact form.                                                           *)
(***************************************************************************)
IssuedTokens == {randomUUID(n) : n \in 0..(uuidCount - 1)}

\* What a client can put in the token field: nothing, a token it was given,
\* a UUID of its own, or any other string.
TokenInputs == IssuedTokens \cup {Undefined, ForeignUuid, "constructor"}

ContactInit ==
    /\ tokenStore = <<>>
    /\ contactLog = <<>>
    /\ uploads = {}

\* GET /api/token
GetToken ==
    /\ uuidCount < MaxTokens
    /\ tokenStore' = SetKey(tokenStore, randomUUID(uuidCount), StartTime)
    /\ uuidCount' = uuidCount + 1
    /\ UNCHANGED <<contactLog, mailCalls, uploads, chatVars, blogVars, envVars>>

\* POST /api/send-email up to its await: multer has stored the document (if
\* any) in uploads/; the token check and the delete run without a break.
SendEmail(token, doc) ==
    /\ Len(contactLog) < MaxContact
    /\ LET req == Len(contactLog) + 1 IN
       IF ~HasTruthy(tokenStore, token)
       THEN \* 400; the temporary file is unlinked before responding
            /\ contactLog' = Append(contactLog,
                    [token |-> token, doc |-> doc, status |-> "400"])
            /\ UNCHANGED <<tokenStore, mailCalls, uploads>>
       ELSE /\ tokenStore' = DeleteKey(tokenStore, token)
            /\ mailCalls' = Append(mailCalls, [kind |-> "contact", req |-> req])
            /\ uploads' = IF doc THEN uploads \cup {req} ELSE uploads
            /\ contactLog' = Append(contactLog,
                    [token |-> token, doc |-> doc, status |-> "sending"])
    /\ UNCHANGED <<uuidCount, chatVars, blogVars, envVars>>

SettledStatusOk(ok) == "200"

\* res.status(200) after the awaited sendMail resolved, res.status(500) in
\* the catch after it threw.
SettledStatus(ok) == IF ok THEN "200" ELSE "500"

\* The awaited transporter.sendMail settles: 200 if it resolved, 500 if it
\* threw; either way the temporary file is unlinked.
SendMailSettled(req, ok) ==
    /\ req \in DOMAIN contactLog
    /\ contactLog[req].status = "sending"
    /\ contactLog' = [contactLog EXCEPT ![req].status = SettledStatus(ok)]
    /\ uploads' = uploads \ {req}
    /\ UNCHANGED <<tokenStore, uuidCount, mailCalls, chatVars, blogVars, envVars>>

ContactNext ==
    \/ GetToken
    \/ \E token \in TokenInputs, doc \in BOOLEAN : SendEmail(token, doc)
    \/ \E req \in 1..MaxContact, ok \in BOOLEAN : SendMailSettled(req, ok)

(***************************************************************************)
(* Contact form: the claims.                                               *)
(***************************************************************************)
UsesOf(t) == {i \in DOMAIN contactLog : contactLog[i].token = t}

MailsOf(i) ==
    {m \in DOMAIN mailCalls : mailCalls[m].kind = "contact" /\ mailCalls[m].req = i}

\* C1: of the requests presenting a token that GET /api/token returned, exactly
\* the first one handled passes validation; every other one is answered 400
\* and invokes no sendMail, so at most one mail is sent per issued token.
C1_TokenAcceptedOnce ==
    \A t \in IssuedTokens :
        /\ \A i \in UsesOf(t) :
              /\ (contactLog[i].status # "400") <=> (\A j \in UsesOf(t) : i <= j)
              /\ contactLog[i].status = "400" => MailsOf(i) = {}
        /\ Cardinality(UNION {MailsOf(i) : i \in UsesOf(t)}) <= 1

\* An issued token was presented twice: the first request sent its mail, the
\* second was rejected.
C1_Witness ==
    \E t \in IssuedTokens : \E i, j \in UsesOf(t) :
        /\ i < j
        /\ contactLog[i].status = "200"
        /\ contactLog[j].status = "400"
        /\ MailsOf(i) # {}

\* C2: a request whose token is absent, was never returned by GET /api/token,
\* or was already consumed is answered 400 and invokes no sendMail.
C2_UnknownTokenRejected ==
    \A i \in DOMAIN contactLog :
        (\/ contactLog[i].token \notin IssuedTokens
         \/ \E j \in UsesOf(contactLog[i].token) : j < i)
        => contactLog[i].status = "400" /\ MailsOf(i) = {}

\* The part of C2 that the code keeps: absent, foreign-UUID and consumed tokens.
C2_Holds ==
    \A i \in DOMAIN contactLog :
        (\/ contactLog[i].token \in {Undefined, ForeignUuid}
         \/ \E j \in UsesOf(contactLog[i].token) : j < i /\ contactLog[i].token \in IssuedTokens)
        => contactLog[i].status = "400" /\ MailsOf(i) = {}

\* C13: when a request presents an issued token and its sendMail fails, the
\* request is answered 500 and that is the end of it: sendMail was invoked
\* once for it and is not invoked again, the token is no longer in the
\* store, and every later request presenting the token is answered 400 and
\* sends nothing.
C13_MailFailureTerminal ==
    /\ [][\A req \in 1..MaxContact :
             SendMailSettled(req, FALSE) =>
                /\ contactLog'[req].status = "500"
                /\ mailCalls' = mailCalls
                /\ tokenStore' = tokenStore
         ]_vars
    /\ [](\A t \in IssuedTokens : \A i \in UsesOf(t) :
             contactLog[i].status = "500" =>
                /\ Cardinality(MailsOf(i)) = 1
                /\ Lookup(tokenStore, t) # "own"
                /\ \A j \in UsesOf(t) :
                      j # i => j > i /\ contactLog[j].status = "400" /\ MailsOf(j) = {})

\* The mail of a request failed, a second request with its token was
\* rejected, and a third with a newly issued token succeeded.
C13_Witness ==
    \E t1, t2 \in IssuedTokens :
        /\ t1 # t2
        /\ Len(contactLog) = 3
        /\ contactLog[1].token = t1 /\ contactLog[1].status = "500"
        /\ contactLog[2].token = t1 /\ contactLog[2].status = "400"
        /\ contactLog[3].token = t2 /\ contactLog[3].status = "200"

(***************************************************************************)
(* Strings as sequences of characters, for the operations that look inside *)
(* them.                                                                   *)
(***************************************************************************)
UpperLetters ==
    <<"A", "B", "C", "D", "E", "F", "G", "H", "I", "J", "K", "L", "M",
      "N", "O", "P", "Q", "R", "S", "T", "U", "V", "W", "X", "Y", "Z">>

LowerLetters ==
    <<"a", "b", "c", "d", "e", "f", "g", "h", "i", "j", "k", "l", "m",
      "n", "o", "p", "q", "r", "s", "t", "u", "v", "w", "x", "y", "z">>

LowerChar(c) ==
    IF \E i \in DOMAIN UpperLetters : UpperLetters[i] = c
    THEN LowerLetters[CHOOSE i \in DOMAIN UpperLetters : UpperLetters[i] = c]
    ELSE c

\* String.prototype.toLowerCase
ToLowerCase(s) == [i \in 1..Len(s) |-> LowerChar(s[i])]

WhiteSpace == {" ", "\t", "\n", "\r"}

RECURSIVE TrimStart(_)
TrimStart(s) ==
    IF s # <<>> /\ s[1] \in WhiteSpace THEN TrimStart(Tail(s)) ELSE s

RECURSIVE TrimEnd(_)
TrimEnd(s) ==
    IF s # <<>> /\ s[Len(s)] \in WhiteSpace
    THEN TrimEnd(SubSeq(s, 1, Len(s) - 1))
    ELSE s

\* String.prototype.trim
Trim(s) == TrimEnd(TrimStart(s))

\* String.prototype.includes
Includes(s, sub) ==
    \E i \in 0..(Len(s) - Len(sub)) : SubSeq(s, i + 1, i + Len(sub)) = sub

\* The string a sequence of characters spells.
RECURSIVE Str(_)
Str(cs) == IF cs = <<>> THEN "" ELSE cs[1] \o Str(Tail(cs))

(***************************************************************************)
(* Chatbot.                                                                *)
(***************************************************************************)
faqResponses ==
    ("what services do you offer?" :>
        "We offer Telecom Infrastructure, Geospatial & GIS Solutions, Skill Development, and Consultancy & Business Incubation.")
    @@ ("what are your business hours?" :>
        "Our business hours are Monday - Sunday, from 9:00 AM to 8:00 PM.")
    @@ ("how do i contact support?" :>
        "You can contact our support team via email at info@digitalindian.co.in or by calling +91 7908735132.")
    @@ ("how can i book a meeting?" :>
        "You can book a meeting by using the 'View Calendar' option on our contact page to schedule a time that works for you.")

KeywordDate == <<"d", "a", "t", "e">>
KeywordToday == <<"t", "o", "d", "a", "y">>

ReplyNoKey == "I'm sorry, my API key is not configured. Please contact the administrator."
ReplyInvalid == "I'm sorry, I received an invalid response. Please try again."
ReplyFailed == "I'm sorry, I couldn't process that request right now. Please try again later."

\* The text the external model answers with.
GeminiText == "<candidates[0].content.parts[0].text>"

\* The current date as toLocaleDateString('en-US', {weekday: 'long', year:
\* 'numeric', month: 'long', day: 'numeric'}) writes it.
FormatDate(d) ==
    d.weekday \o ", " \o d.month \o " " \o ToString(d.day) \o ", " \o ToString(d.year)

DateReply(d) == "Hello! Today is " \o FormatDate(d) \o "."

\* The days the requests are made on.
ChatDates ==
    {[weekday |-> "Wednesday", month |-> "November", day |-> 4, year |-> 2026],
     [weekday |-> "Thursday", month |-> "January", day |-> 1, year |-> 2026]}

\* Messages: a question or remark, with white space around it.
MsgHours ==
    <<"W", "h", "a", "t", " ", "a", "r", "e", " ", "y", "o", "u", "r", " ",
      "b", "u", "s", "i", "n", "e", "s", "s", " ", "h", "o", "u", "r", "s",
      "?">>
MsgHoursUpper ==
    <<"W", "H", "A", "T", " ", "A", "R", "E", " ", "Y", "O", "U", "R", " ",
      "B", "U", "S", "I", "N", "E", "S", "S", " ", "H", "O", "U", "R", "S",
      "?">>
MsgServices ==
    <<"w", "h", "a", "t", " ", "s", "e", "r", "v", "i", "c", "e", "s", " ",
      "d", "o", " ", "y", "o", "u", " ", "o", "f", "f", "e", "r", "?">>
MsgSupport ==
    <<"H", "o", "w", " ", "d", "o", " ", "I", " ", "c", "o", "n", "t", "a",
      "c", "t", " ", "s", "u", "p", "p", "o", "r", "t", "?">>
MsgMeeting ==
    <<"H", "o", "w", " ", "c", "a", "n", " ", "I", " ", "b", "o", "o", "k",
      " ", "a", " ", "m", "e", "e", "t", "i", "n", "g", "?">>
MsgDate ==
    <<"W", "h", "a", "t", " ", "i", "s", " ", "t", "h", "e", " ", "D", "A",
      "T", "E">>
MsgToday ==
    <<"T", "o", "d", "a", "y">>
MsgUpdate ==
    <<"a", "n", "y", " ", "u", "p", "d", "a", "t", "e", "s", "?">>
MsgHoursToday ==
    <<"W", "h", "a", "t", " ", "a", "r", "e", " ", "y", "o", "u", "r", " ",
      "b", "u", "s", "i", "n", "e", "s", "s", " ", "h", "o", "u", "r", "s",
      " ", "t", "o", "d", "a", "y", "?">>
MsgHello ==
    <<"h", "e", "l", "l", "o">>
MsgHoursNoMark ==
    <<"W", "h", "a", "t", " ", "a", "r", "e", " ", "y", "o", "u", "r", " ",
      "b", "u", "s", "i", "n", "e", "s", "s", " ", "h", "o", "u", "r", "s">>
MsgHoursInnerSpace ==
    <<"W", "h", "a", "t", " ", "a", "r", "e", " ", " ", "y", "o", "u", "r",
      " ", "b", "u", "s", "i", "n", "e", "s", "s", " ", "h", "o", "u", "r",
      "s", "?">>
MsgConstructor ==
    <<"C", "o", "n", "s", "t", "r", "u", "c", "t", "o", "r">>
MsgProto ==
    <<"_", "_", "p", "r", "o", "t", "o", "_", "_">>
MsgToString ==
    <<"t", "o", "S", "t", "r", "i", "n", "g">>

ChatCores ==
    {MsgHours, MsgHoursUpper, MsgServices, MsgSupport,
     MsgMeeting, MsgDate, MsgToday, MsgUpdate,
     MsgHoursToday, MsgHello, MsgHoursNoMark, MsgHoursInnerSpace,
     MsgConstructor, MsgProto, MsgToString, <<>>}

ChatPads == {<<>>, <<" ">>, <<"\t", "\n">>}

ChatMessages == {l \o c \o r : l \in ChatPads, c \in ChatCores, r \in ChatPads}

FetchOutcomes == {"text", "invalid", "throw"}

NoResp == [status |-> "none", reply |-> Undefined]

ChatInit ==
    /\ chatPc = "idle"
    /\ chatMsg = <<>>
    /\ chatDate \in ChatDates
    /\ chatResp = NoResp
    /\ fetchCalls = 0
    /\ apiKey \in {Undefined, "key"}

\* if (faqResponses[userMessage])
FaqMatches(userMessage) == Lookup(faqResponses, Str(userMessage)) # "undefined"

\* JSON of { reply: faqResponses[userMessage] }: an own property is the
\* answer; an inherited member is a function or the prototype object, not a
\* string (a function-valued reply is left out of the JSON altogether).
FaqReply(userMessage) ==
    IF Lookup(faqResponses, Str(userMessage)) = "own"
    THEN faqResponses[Str(userMessage)]
    ELSE Undefined

\* req.body.message.toLowerCase().trim()
Normalize(message) == Trim(ToLowerCase(message))

\* POST /api/chat up to its await (or to its response, if it needs none).
\* The handler reads and writes nothing that outlives the request, so one
\* request is followed from its arrival to its response.
Chat(message, today) ==
    /\ chatPc = "idle"
    /\ chatMsg' = message
    /\ chatDate' = today
    /\ LET userMessage == Normalize(message) IN
       IF Includes(userMessage, KeywordDate) \/ Includes(userMessage, KeywordToday)
       THEN /\ chatResp' = [status |-> "200", reply |-> DateReply(today)]
            /\ chatPc' = "done"
            /\ fetchCalls' = 0
       ELSE IF FaqMatches(userMessage)
       THEN /\ chatResp' = [status |-> "200", reply |-> FaqReply(userMessage)]
            /\ chatPc' = "done"
            /\ fetchCalls' = 0
       ELSE IF apiKey = Undefined
       THEN /\ chatResp' = [status |-> "500", reply |-> ReplyNoKey]
            /\ chatPc' = "done"
            /\ fetchCalls' = 0
       ELSE /\ chatResp' = NoResp
            /\ chatPc' = "fetching"
            /\ fetchCalls' = 1
    /\ UNCHANGED <<apiKey, uuidCount, mailCalls, contactVars, blogVars, envVars>>

\* The awaited fetch settles: a usable answer, an answer of another shape,
\* or an exception.
ChatFetchSettled(outcome) ==
    /\ chatPc = "fetching"
    /\ chatPc' = "done"
    /\ chatResp' =
         CASE outcome = "text" -> [status |-> "200", reply |-> GeminiText]
           [] outcome = "invalid" -> [status |-> "500", reply |-> ReplyInvalid]
           [] OTHER -> [status |-> "500", reply |-> ReplyFailed]
    /\ UNCHANGED <<chatMsg, chatDate, fetchCalls, apiKey, uuidCount, mailCalls, contactVars, blogVars, envVars>>

ChatNext ==
    \/ \E message \in ChatMessages, today \in ChatDates : Chat(message, today)
    \/ \E outcome \in FetchOutcomes : ChatFetchSettled(outcome)

\* The chatbot at rest, in the specifications of the other subsystems.
ChatOff == ChatInit /\ apiKey = Undefined /\ chatDate.day = 4


(***************************************************************************)
(* Chatbot: the claims.                                                    *)
(***************************************************************************)
HasDateKeyword(message) ==
    \/ Includes(Trim(ToLowerCase(message)), KeywordDate)
    \/ Includes(Trim(ToLowerCase(message)), KeywordToday)

IsFaqQuestion(message) == Str(Trim(ToLowerCase(message))) \in DOMAIN faqResponses

\* "What are your business hours?" in some case, with some white space around.
HoursVariants ==
    {l \o c \o r : l \in ChatPads, c \in {MsgHours, MsgHoursUpper}, r \in ChatPads}

HoursAnswer == "Our business hours are Monday - Sunday, from 9:00 AM to 8:00 PM."

C9_DateFirst ==
    HasDateKeyword(chatMsg)
    => chatResp = [status |-> "200", reply |-> DateReply(chatDate)] /\ fetchCalls = 0

C9_FaqSecond ==
    /\ ~HasDateKeyword(chatMsg) /\ IsFaqQuestion(chatMsg)
       => /\ chatResp.status = "200"
          /\ chatResp.reply = faqResponses[Str(Trim(ToLowerCase(chatMsg)))]
          /\ fetchCalls = 0
    /\ chatMsg \in HoursVariants => chatResp.reply = HoursAnswer

C9_NoKeyThird ==
    ~HasDateKeyword(chatMsg) /\ ~IsFaqQuestion(chatMsg) /\ apiKey = Undefined
    => chatResp = [status |-> "500", reply |-> ReplyNoKey] /\ fetchCalls = 0

\* C9: the reply to a handled message follows the chain (1) date keyword ->
\* the current-date sentence, (2) else an FAQ question -> its configured answer
\* with status 200, (3) else, with no API key configured -> the fixed apology
\* with status 500; in all three no external call is made.
C9_ChatChain ==
    chatPc = "done" => C9_DateFirst /\ C9_FaqSecond /\ C9_NoKeyThird

\* The links of the chain the code keeps: (1) and (2).
C9_Holds ==
    chatPc = "done" => C9_DateFirst /\ C9_FaqSecond

(***************************************************************************)
(* Admin session.  Time is counted in ticks of five minutes.               *)
(***************************************************************************)
ADMIN_USERNAME == "admin"
ADMIN_PASSWORD == "pw"
JWT_SECRET == "secret"

\* setTimeout(..., 5 * 60 * 1000): one tick.
NotifyDelay == 1

\* expiresIn: '1h': twelve ticks.
ExpiresIn == 12

\* Ticks in a day.
TicksPerDay == 288

\* What the Authorization header can hold: nothing, something that is no
\* JWT, or a JWT: the username claim, the key that signed it, its expiry.
NoCred == [form |-> "absent", username |-> Undefined, key |-> Undefined, exp |-> 0]

GarbageCred == [form |-> "garbage", username |-> Undefined, key |-> Undefined, exp |-> 0]

Jwt(username, key, exp) ==
    [form |-> "jwt", username |-> username, key |-> key, exp |-> exp]

\* jwt.sign({ username }, secret, { expiresIn: '1h' }) at time t
jwtSign(username, secret, t) == Jwt(username, secret, t + ExpiresIn)

\* jwt.verify(token, secret) at time t returns the payload (does not throw):
\* a JWT, signed with the secret, whose exp is still ahead.
jwtVerify(token, secret, t) ==
    token.form = "jwt" /\ token.key = secret /\ t < token.exp

authenticateAnyUser(token, t) ==
    IF token.form = "absent" THEN "401"
    ELSE IF ~jwtVerify(token, JWT_SECRET, t) THEN "401"
    ELSE "next"

\* authenticateAdmin: the status it answers with, or "next" if it calls next().
authenticateAdmin(token, t) ==
    IF token.form = "absent" THEN "401"
    ELSE IF ~jwtVerify(token, JWT_SECRET, t) THEN "401"
    ELSE IF token.username # ADMIN_USERNAME THEN "403"
    ELSE "next"

(***************************************************************************)
(* Objects and the two JSON stores.  A post is a function from the names   *)
(* of its fields to strings; a field it lacks reads as undefined.  A store *)
(* file holds a JSON array; JSON.stringify followed by JSON.parse returns  *)
(* an array of such objects (or of strings) as it was, so a file is        *)
(* modelled by the array it holds.                                         *)
(***************************************************************************)
Get(obj, field) == IF field \in DOMAIN obj THEN obj[field] ELSE Undefined

\* !value, for a string or undefined
Falsy(value) == value \in {Undefined, ""}

MergeKeepOld(old, new) ==
    [f \in DOMAIN old \cup DOMAIN new |-> IF f \in DOMAIN old THEN old[f] ELSE new[f]]

\* { ...old, ...new }
Merge(old, new) ==
    [f \in DOMAIN old \cup DOMAIN new |-> IF f \in DOMAIN new THEN new[f] ELSE old[f]]

AbsentFile == [exists |-> FALSE, data |-> <<>>]

FileOf(array) == [exists |-> TRUE, data |-> array]

\* The file after readBlogs: created holding [] if it was missing, unless
\* that write throws (the error is caught).
TouchBlogs(file) ==
    IF file.exists \/ blogsFault = "write" THEN file ELSE FileOf(<<>>)

\* What readBlogs returns: the array in the file, [] for a file it has just
\* created, and [] from its catch when reading throws or the file could not
\* be created.
readBlogs(file) ==
    IF file.exists /\ blogsFault # "read" THEN file.data ELSE <<>>

\* The file after writeBlogs(blogs): rewritten, or as it was if the write
\* throws (the error is caught and logged).
writeBlogs(file, blogs) ==
    IF blogsFault = "write" THEN file ELSE FileOf(blogs)

readSubscribersNone(file) == <<>>

\* What readSubscribers returns.
readSubscribers(file) == IF file.exists THEN file.data ELSE <<>>

\* new Date().toISOString().split('T')[0] at time t
Days == <<"2026-11-04", "2026-11-05">>
ISODate(t) == Days[(t \div TicksPerDay) + 1]

FilterNotDraft(blogs) == SelectSeq(blogs, LAMBDA blog : Get(blog, "status") # "draft")

\* blogs.filter(blog => blog.status === 'published')
FilterPublished(blogs) == SelectSeq(blogs, LAMBDA blog : Get(blog, "status") = "published")

FilterDropLast(blogs, id) ==
    IF blogs = <<>> THEN blogs ELSE SubSeq(blogs, 1, Len(blogs) - 1)

\* blogs.filter(blog => blog.id !== id)
FilterOthers(blogs, id) == SelectSeq(blogs, LAMBDA blog : Get(blog, "id") # id)

FindIndexFirst(blogs, id) == IF blogs # <<>> THEN 1 ELSE 0

\* blogs.findIndex(blog => blog.id === id), counting from 1; 0 for -1.
FindIndex(blogs, id) ==
    IF \E i \in DOMAIN blogs : Get(blogs[i], "id") = id
    THEN CHOOSE i \in DOMAIN blogs :
            /\ Get(blogs[i], "id") = id
            /\ \A j \in DOMAIN blogs : Get(blogs[j], "id") = id => i <= j
    ELSE 0

IncludesNever(array, value) == FALSE

\* array.includes(value)
ArrayIncludes(array, value) == \E i \in DOMAIN array : array[i] = value

SetTimeoutTwice(queue, post, t) ==
    queue \o << [due |-> t + NotifyDelay, post |-> post],
                [due |-> t + NotifyDelay, post |-> post] >>

\* The timers after setTimeout(() => sendNewBlogPostEmail(post), 5 minutes).
SetTimeout(queue, post, t) ==
    Append(queue, [due |-> t + NotifyDelay, post |-> post])

Response(op, status) == [op |-> op, status |-> status, posts |-> <<>>, token |-> NoCred]

BlogInit ==
    /\ now = 0
    /\ issued \in {{}, {jwtSign(ADMIN_USERNAME, JWT_SECRET, 0)}}
    /\ blogsFile = AbsentFile
    /\ subscribersFile = AbsentFile
    /\ timers = <<>>
    /\ timerCount = 0
    /\ blogResp = Response("none", "none")

(***************************************************************************)
(* Admin and blog routes.                                                  *)
(***************************************************************************)
CredentialsMatchName(username, password) == username = ADMIN_USERNAME

\* username === adminUsername && password === adminPassword
CredentialsMatch(username, password) ==
    username = ADMIN_USERNAME /\ password = ADMIN_PASSWORD

\* POST /api/admin/login
Login(username, password) ==
    /\ IF CredentialsMatch(username, password)
       THEN LET token == jwtSign(ADMIN_USERNAME, JWT_SECRET, now) IN
            /\ issued' = issued \cup {token}
            /\ blogResp' = [Response("login", "200") EXCEPT !.token = token]
       ELSE /\ issued' = issued
            /\ blogResp' = Response("login", "401")
    /\ UNCHANGED <<now, blogsFile, subscribersFile, timers, timerCount>>
    /\ UNCHANGED <<uuidCount, mailCalls, contactVars, chatVars, envVars>>

\* GET /api/blogs
ListPublished ==
    /\ blogsFile' = TouchBlogs(blogsFile)
    /\ blogResp' = [Response("list_published", "200")
                        EXCEPT !.posts = FilterPublished(readBlogs(blogsFile))]
    /\ UNCHANGED <<now, issued, subscribersFile, timers, timerCount>>
    /\ UNCHANGED <<uuidCount, mailCalls, contactVars, chatVars, envVars>>

\* GET /api/admin/blogs
ListAll(cred) ==
    /\ IF authenticateAdmin(cred, now) # "next"
       THEN /\ blogResp' = Response("list_all", authenticateAdmin(cred, now))
            /\ UNCHANGED blogsFile
       ELSE /\ blogsFile' = TouchBlogs(blogsFile)
            /\ blogResp' = [Response("list_all", "200")
                                EXCEPT !.posts = readBlogs(blogsFile)]
    /\ UNCHANGED <<now, issued, subscribersFile, timers, timerCount>>
    /\ UNCHANGED <<uuidCount, mailCalls, contactVars, chatVars, envVars>>

\* POST /api/blogs
CreateBlog(cred, body) ==
    /\ IF authenticateAdmin(cred, now) # "next"
       THEN /\ blogResp' = Response("create", authenticateAdmin(cred, now))
            /\ UNCHANGED <<blogsFile, timers, timerCount, uuidCount>>
       ELSE LET newBlog ==
                    Merge(body,
                          [id |-> randomUUID(uuidCount),
                           date |-> ISODate(now),
                           status |-> IF Falsy(Get(body, "status"))
                                      THEN "draft" ELSE body.status])
                blogs == Append(readBlogs(blogsFile), newBlog)
            IN  /\ uuidCount' = uuidCount + 1
                /\ blogsFile' = writeBlogs(TouchBlogs(blogsFile), blogs)
                /\ IF newBlog.status = "published"
                   THEN /\ timers' = SetTimeout(timers, newBlog, now)
                        /\ timerCount' = timerCount + 1
                   ELSE UNCHANGED <<timers, timerCount>>
                /\ blogResp' = Response("create", "201")
    /\ UNCHANGED <<now, issued, subscribersFile>>
    /\ UNCHANGED <<mailCalls, contactVars, chatVars, envVars>>

IsPublishingAny(oldBlog, updated) == Get(updated, "status") = "published"

\* oldBlog.status === 'draft' && blogs[index].status === 'published'
IsPublishing(oldBlog, updated) ==
    Get(oldBlog, "status") = "draft" /\ Get(updated, "status") = "published"

\* PUT /api/blogs/:id
UpdateBlog(cred, id, body) ==
    /\ IF authenticateAdmin(cred, now) # "next"
       THEN /\ blogResp' = Response("update", authenticateAdmin(cred, now))
            /\ UNCHANGED <<blogsFile, timers, timerCount>>
       ELSE LET blogs == readBlogs(blogsFile)
                index == FindIndex(blogs, id)
            IN  IF index # 0
                THEN LET oldBlog == blogs[index]
                         updated == Merge(oldBlog, body)
                     IN  /\ blogsFile' = writeBlogs(TouchBlogs(blogsFile), [blogs EXCEPT ![index] = updated])
                         /\ IF IsPublishing(oldBlog, updated)
                            THEN /\ timers' = SetTimeout(timers, updated, now)
                                 /\ timerCount' = timerCount + 1
                            ELSE UNCHANGED <<timers, timerCount>>
                         /\ blogResp' = Response("update", "200")
                ELSE /\ blogsFile' = TouchBlogs(blogsFile)
                     /\ blogResp' = Response("update", "404")
                     /\ UNCHANGED <<timers, timerCount>>
    /\ UNCHANGED <<now, issued, subscribersFile>>
    /\ UNCHANGED <<uuidCount, mailCalls, contactVars, chatVars, envVars>>

\* DELETE /api/blogs/:id
DeleteBlog(cred, id) ==
    /\ IF authenticateAdmin(cred, now) # "next"
       THEN /\ blogResp' = Response("delete", authenticateAdmin(cred, now))
            /\ UNCHANGED blogsFile
       ELSE LET blogs == readBlogs(blogsFile)
                kept == FilterOthers(blogs, id)
            IN  IF Len(kept) < Len(blogs)
                THEN /\ blogsFile' = writeBlogs(TouchBlogs(blogsFile), kept)
                     /\ blogResp' = Response("delete", "200")
                ELSE /\ blogsFile' = TouchBlogs(blogsFile)
                     /\ blogResp' = Response("delete", "404")
    /\ UNCHANGED <<now, issued, subscribersFile, timers, timerCount>>
    /\ UNCHANGED <<uuidCount, mailCalls, contactVars, chatVars, envVars>>

\* POST /api/subscribe
Subscribe(email) ==
    /\ IF Falsy(email)
       THEN /\ blogResp' = Response("subscribe", "400")
            /\ UNCHANGED subscribersFile
       ELSE LET subscribers == readSubscribers(subscribersFile) IN
            IF ArrayIncludes(subscribers, email)
            THEN /\ blogResp' = Response("subscribe", "409")
                 /\ UNCHANGED subscribersFile
            ELSE /\ subscribersFile' = FileOf(Append(subscribers, email))
                 /\ blogResp' = Response("subscribe", "200")
    /\ UNCHANGED <<now, issued, blogsFile, timers, timerCount>>
    /\ UNCHANGED <<uuidCount, mailCalls, contactVars, chatVars, envVars>>

(***************************************************************************)
(* Notifications and the clock.                                            *)
(***************************************************************************)
NotificationOfNothing(post, subscribers) ==
    [kind |-> "notification", to |-> subscribers, title |-> Undefined,
     excerpt |-> Undefined, id |-> Undefined]

\* The mailOptions sendNewBlogPostEmail builds: the recipients (joined with
\* commas in the code), and the title, excerpt and id it writes in the text.
Notification(post, subscribers) ==
    [kind |-> "notification", to |-> subscribers, title |-> Get(post, "title"),
     excerpt |-> Get(post, "excerpt"), id |-> Get(post, "id")]

\* The oldest timer is due: its callback runs sendNewBlogPostEmail(post).
\* All timers have the same delay, so they run in the order they were set.
FireTimer ==
    /\ timers # <<>>
    /\ Head(timers).due <= now
    /\ LET subscribers == readSubscribers(subscribersFile) IN
       mailCalls' = IF Len(subscribers) = 0
                    THEN mailCalls
                    ELSE Append(mailCalls,
                            Notification(Head(timers).post, subscribers))
    /\ timers' = Tail(timers)
    /\ UNCHANGED <<now, issued, blogsFile, subscribersFile, timerCount, blogResp>>
    /\ UNCHANGED <<uuidCount, contactVars, chatVars, envVars>>

\* The clock advances by d ticks.  A timer that is due runs before it does.
Tick(d) ==
    /\ IF timers = <<>> THEN TRUE ELSE Head(timers).due > now
    /\ now' = now + d
    /\ UNCHANGED <<issued, blogsFile, subscribersFile, timers, timerCount, blogResp>>
    /\ UNCHANGED <<uuidCount, mailCalls, contactVars, chatVars, envVars>>

\* The file system starts, or stops, answering accesses of blogs.json with
\* an error: reads that throw (EIO, a file that is no JSON), or writes that
\* throw (EACCES, ENOSPC, a read-only file system).
BlogsFaults == {"none", "read", "write"}

SetFault(fault) ==
    /\ fault # blogsFault
    /\ blogsFault' = fault
    /\ UNCHANGED <<running, reqs>>
    /\ UNCHANGED <<uuidCount, mailCalls, contactVars, chatVars, blogVars>>

(***************************************************************************)
(* Request inputs.                                                         *)
(***************************************************************************)
\* The request bodies with any of the given fields, each with one of the
\* values given for it.
Bodies(values) ==
    UNION {{b \in [D -> UNION {values[f] : f \in D}] : \A f \in D : b[f] \in values[f]}
           : D \in SUBSET DOMAIN values}

\* Credentials a request can carry besides one it was issued: none, no JWT
\* at all, a JWT signed with another key, a JWT for another user signed with
\* the server's key, and an admin JWT that expired as the model starts.
ForgedCreds ==
    {NoCred, GarbageCred,
     Jwt(ADMIN_USERNAME, "other-secret", (MaxAuthSteps + 2) * AuthStep),
     Jwt("editor", JWT_SECRET, (MaxAuthSteps + 2) * AuthStep),
     Jwt(ADMIN_USERNAME, JWT_SECRET, 0)}

LoginNames == {ADMIN_USERNAME, "editor", Undefined}

LoginPasswords == {ADMIN_PASSWORD, "guess", Undefined}

\* The ids a URL can name: those of the first n posts created, and one that
\* no post gets.
PostIds(n) == {randomUUID(k) : k \in 0..(n - 1)} \cup {ForeignUuid}

Emails == {Undefined, "", "a@x.io", "b@x.io"}

AuthBodies == Bodies([status |-> {"published"}])

\* A date no post is created on.
ForeignDate == "1999-12-31"

StoreBodies ==
    Bodies([status |-> {"draft", "published", "archived"}, id |-> {randomUUID(0)},
            date |-> {ForeignDate}])

NotifyBodies == Bodies([title |-> {"t1", "t2"}, status |-> {"draft", "published"}])

(***************************************************************************)
(* The next-state relations.  Each bounds what its requests may add.       *)
(***************************************************************************)
\* The admin session: logins and the protected routes, over an hour and
\* more of clock, which advances half an hour at a time.
AuthNext ==
    \/ \E username \in LoginNames, password \in LoginPasswords :
            Login(username, password) /\ Cardinality(issued') <= MaxAuthLogins
    \/ \E cred \in issued \cup ForgedCreds : ListAll(cred)
    \/ \E cred \in issued \cup ForgedCreds, body \in AuthBodies :
            /\ CreateBlog(cred, body)
            /\ uuidCount' <= MaxAuthPosts /\ timerCount' <= MaxAuthTimers
    \/ \E cred \in issued \cup ForgedCreds, id \in PostIds(MaxAuthPosts), body \in AuthBodies :
            UpdateBlog(cred, id, body) /\ timerCount' <= MaxAuthTimers
    \/ \E cred \in issued \cup ForgedCreds, id \in PostIds(MaxAuthPosts) :
            DeleteBlog(cred, id)
    \/ FireTimer
    \/ Tick(AuthStep) /\ now' <= MaxAuthSteps * AuthStep

\* The blog store, with the admin logged in at the start.
StoreNext ==
    \/ ListPublished
    \/ \E cred \in issued : ListAll(cred)
    \/ \E cred \in issued, body \in StoreBodies :
            /\ CreateBlog(cred, body)
            /\ uuidCount' <= MaxStorePosts /\ timerCount' <= MaxStoreTimers
    \/ \E cred \in issued, id \in PostIds(MaxStorePosts), body \in StoreBodies :
            UpdateBlog(cred, id, body) /\ timerCount' <= MaxStoreTimers
    \/ \E cred \in issued, id \in PostIds(MaxStorePosts) : DeleteBlog(cred, id)
    \/ FireTimer
    \/ Tick(NotifyDelay) /\ timers # <<>>

\* Publishing, subscribing and the notifications, with the admin logged in
\* at the start.
NotifyNext ==
    \/ \E cred \in issued, body \in NotifyBodies :
            /\ CreateBlog(cred, body)
            /\ uuidCount' <= MaxNotifyPosts /\ timerCount' <= MaxNotifyTimers
    \/ \E cred \in issued, id \in PostIds(MaxNotifyPosts), body \in NotifyBodies :
            UpdateBlog(cred, id, body) /\ timerCount' <= MaxNotifyTimers
    \/ \E cred \in issued, id \in PostIds(MaxNotifyPosts) : DeleteBlog(cred, id)
    \/ \E email \in Emails :
            Subscribe(email) /\ Len(subscribersFile'.data) <= MaxSubscribers
    \/ FireTimer
    \/ Tick(NotifyDelay) /\ now' <= MaxNotifyTime

FaultBodies == Bodies([title |-> {"t1", "t2"}])

(***************************************************************************)
(* The store handlers step by step.  A request arrives and waits in the    *)
(* event loop's queue; its handler reads the store file, and then changes  *)
(* what it has read, writes it back and responds.  The handlers are        *)
(* synchronous functions (no await, no callback between the read and the   *)
(* write), and Node runs one function at a time: a handler that has begun  *)
(* keeps the call stack until it returns.                                  *)
(***************************************************************************)
MayRunAlways(r) == TRUE

\* The event loop can run a step of request r's handler: nothing else is on
\* the call stack.
MayRun(r) == running \in {0, r}

\* The requests in flight: arrived, and not responded to yet.
InFlight == {q \in DOMAIN reqs : reqs[q].pc # "done"}

RaceRequests ==
    {[op |-> "create", id |-> Undefined, body |-> body, email |-> Undefined]
        : body \in Bodies([title |-> {"t1"}])}
    \cup {[op |-> "update", id |-> id, body |-> [title |-> "t2"], email |-> Undefined]
        : id \in PostIds(MaxRaceRequests - 1)}
    \cup {[op |-> "delete", id |-> id, body |-> <<>>, email |-> Undefined]
        : id \in PostIds(MaxRaceRequests - 1)}
    \cup {[op |-> "subscribe", id |-> Undefined, body |-> <<>>, email |-> email]
        : email \in Emails}

\* A request arrives, carrying the admin's credential.
Arrive(request, cred) ==
    /\ reqs' = Append(reqs,
            [op |-> request.op, id |-> request.id, body |-> request.body,
             email |-> request.email, cred |-> cred, pc |-> "queued",
             local |-> <<>>, with |-> {}, status |-> "none", made |-> Undefined])
    /\ UNCHANGED <<blogsFault, running>>
    /\ UNCHANGED <<uuidCount, mailCalls, contactVars, chatVars, blogVars>>

\* The handler of request r begins: the middleware and the checks that come
\* before the read, then the read of the store file (which creates a
\* missing one).
Begin(r) ==
    /\ r \in DOMAIN reqs
    /\ reqs[r].pc = "queued"
    /\ MayRun(r)
    /\ LET req == reqs[r]
           rejected ==
                IF req.op = "subscribe"
                THEN IF Falsy(req.email) THEN "400" ELSE "next"
                ELSE authenticateAdmin(req.cred, now)
       IN  IF rejected # "next"
           THEN /\ reqs' = [reqs EXCEPT ![r].pc = "done", ![r].status = rejected]
                /\ blogResp' = Response(req.op, rejected)
                /\ UNCHANGED <<running, blogsFile, subscribersFile>>
           ELSE /\ running' = r
                /\ IF req.op = "subscribe"
                   THEN /\ subscribersFile' = IF subscribersFile.exists
                                              THEN subscribersFile ELSE FileOf(<<>>)
                        /\ UNCHANGED blogsFile
                   ELSE /\ blogsFile' = TouchBlogs(blogsFile)
                        /\ UNCHANGED subscribersFile
                /\ reqs' = [reqs EXCEPT
                                ![r].pc = "read",
                                ![r].with = InFlight \ {r},
                                ![r].local = IF req.op = "subscribe"
                                             THEN readSubscribers(subscribersFile)
                                             ELSE readBlogs(blogsFile)]
                /\ UNCHANGED blogResp
    /\ UNCHANGED <<blogsFault, now, issued, timers, timerCount>>
    /\ UNCHANGED <<uuidCount, mailCalls, contactVars, chatVars>>

\* What the handler of a request does after its read, as a record: the
\* status it answers with, the array it writes (if write), the post it sets
\* a timer for (if publish), and the id it has made (for a create).
Outcome(req) ==
    LET none == [status |-> "none", write |-> FALSE, array |-> <<>>,
                 publish |-> FALSE, post |-> <<>>, made |-> Undefined]
    IN
    CASE req.op = "create" ->
            LET newBlog ==
                    Merge(req.body,
                          [id |-> randomUUID(uuidCount),
                           date |-> ISODate(now),
                           status |-> IF Falsy(Get(req.body, "status"))
                                      THEN "draft" ELSE req.body.status])
            IN  [none EXCEPT !.status = "201", !.write = TRUE,
                             !.array = Append(req.local, newBlog),
                             !.publish = (newBlog.status = "published"),
                             !.post = newBlog, !.made = newBlog.id]
      [] req.op = "update" ->
            LET index == FindIndex(req.local, req.id) IN
            IF index = 0 THEN [none EXCEPT !.status = "404"]
            ELSE LET updated == Merge(req.local[index], req.body) IN
                 [none EXCEPT !.status = "200", !.write = TRUE,
                              !.array = [req.local EXCEPT ![index] = updated],
                              !.publish = IsPublishing(req.local[index], updated),
                              !.post = updated]
      [] req.op = "delete" ->
            LET kept == FilterOthers(req.local, req.id) IN
            IF Len(kept) < Len(req.local)
            THEN [none EXCEPT !.status = "200", !.write = TRUE, !.array = kept]
            ELSE [none EXCEPT !.status = "404"]
      [] req.op = "subscribe" ->
            IF ArrayIncludes(req.local, req.email)
            THEN [none EXCEPT !.status = "409"]
            ELSE [none EXCEPT !.status = "200", !.write = TRUE,
                              !.array = Append(req.local, req.email)]

\* The handler of request r goes on from its read to its response.
Finish(r) ==
    /\ r \in DOMAIN reqs
    /\ reqs[r].pc = "read"
    /\ MayRun(r)
    /\ LET req == reqs[r]
           out == Outcome(req)
       IN  /\ IF out.write /\ req.op = "subscribe"
              THEN subscribersFile' = FileOf(out.array)
              ELSE UNCHANGED subscribersFile
           /\ IF out.write /\ req.op # "subscribe"
              THEN blogsFile' = writeBlogs(blogsFile, out.array)
              ELSE UNCHANGED blogsFile
           /\ uuidCount' = IF req.op = "create" THEN uuidCount + 1 ELSE uuidCount
           /\ IF out.publish
              THEN /\ timers' = SetTimeout(timers, out.post, now)
                   /\ timerCount' = timerCount + 1
              ELSE UNCHANGED <<timers, timerCount>>
           /\ reqs' = [reqs EXCEPT ![r].pc = "done", ![r].status = out.status,
                                   ![r].made = out.made]
           /\ blogResp' = Response(req.op, out.status)
    /\ running' = 0
    /\ UNCHANGED <<blogsFault, now, issued>>
    /\ UNCHANGED <<mailCalls, contactVars, chatVars>>

\* Requests arriving while others are in flight, and the event loop running
\* their handlers.
RaceNext ==
    \/ \E request \in RaceRequests, cred \in issued :
            Arrive(request, cred) /\ Len(reqs') <= MaxRaceRequests
    \/ \E r \in 1..MaxRaceRequests : Begin(r)
    \/ \E r \in 1..MaxRaceRequests : Finish(r)

\* The blog store on a file system that can fail, with the admin logged in
\* at the start.
FaultNext ==
    \/ \E fault \in BlogsFaults : SetFault(fault)
    \/ \E cred \in issued : ListAll(cred)
    \/ \E cred \in issued, body \in FaultBodies :
            CreateBlog(cred, body) /\ uuidCount' <= MaxFaultPosts
    \/ \E cred \in issued, id \in PostIds(MaxFaultPosts), body \in FaultBodies :
            UpdateBlog(cred, id, body)
    \/ \E cred \in issued, id \in PostIds(MaxFaultPosts) : DeleteBlog(cred, id)

(***************************************************************************)
(* Admin session: the claims (SpecAuth).                                   *)
(***************************************************************************)
AuthCreds == issued \cup ForgedCreds

\* A step of one of the four protected routes, for a request carrying cred.
ProtectedStep(cred) ==
    \/ ListAll(cred)
    \/ \E body \in AuthBodies : CreateBlog(cred, body)
    \/ \E id \in PostIds(MaxAuthPosts), body \in AuthBodies : UpdateBlog(cred, id, body)
    \/ \E id \in PostIds(MaxAuthPosts) : DeleteBlog(cred, id)

\* The credential has a valid signature and is not expired.
ValidCred(cred) == cred.form = "jwt" /\ cred.key = JWT_SECRET /\ now < cred.exp

\* The step answered with this status and did nothing else.
RejectedWith(status) ==
    /\ blogResp'.status = status
    /\ blogResp'.posts = <<>>
    /\ blogsFile' = blogsFile
    /\ timers' = timers
    /\ timerCount' = timerCount
    /\ uuidCount' = uuidCount

\* C3: a protected route answers 401 to a request whose credential is missing,
\* is no validly signed JWT or is expired, and 403 to one whose valid
\* credential names another user; in both cases it leaves the blog store
\* alone, returns no posts and schedules nothing.
C3_ProtectedRoutes ==
    [][\A cred \in AuthCreds :
          ProtectedStep(cred) =>
             /\ ~ValidCred(cred) => RejectedWith("401")
             /\ ValidCred(cred) /\ cred.username # ADMIN_USERNAME => RejectedWith("403")
      ]_vars

\* A request by another user with a valid signature was answered 403 while a
\* post was stored.
C3_Witness ==
    /\ blogResp.op \in {"list_all", "create", "update", "delete"}
    /\ blogResp.status = "403"
    /\ Len(blogsFile.data) > 0

LoginAnswersRight ==
    \A username \in LoginNames, password \in LoginPasswords :
        Login(username, password) =>
            IF username = ADMIN_USERNAME /\ password = ADMIN_PASSWORD
            THEN /\ blogResp'.status = "200"
                 /\ blogResp'.token.form = "jwt"
                 /\ blogResp'.token.exp = now + ExpiresIn
                 /\ issued' = issued \cup {blogResp'.token}
            ELSE /\ blogResp'.status = "401"
                 /\ blogResp'.token = NoCred
                 /\ issued' = issued

\* C4 as amended: login issues a credential exactly when the username and the
\* password are the configured ones (401 and no credential otherwise); the
\* credential is accepted on the protected routes until the hour it is issued
\* for is over, and answered 401 from then on.
C4_LoginThenAccepted ==
    [][/\ LoginAnswersRight
       /\ \A cred \in issued :
             ProtectedStep(cred) =>
                IF now < cred.exp
                THEN blogResp'.status \notin {"401", "403"}
                ELSE blogResp'.status = "401"
      ]_vars

\* C4 as claimed: login issues a credential exactly when the username and
\* password are the configured ones, and a credential so issued is accepted
\* on the protected routes.
C4_IssuedAlwaysAccepted ==
    [][/\ LoginAnswersRight
       /\ \A cred \in issued :
             ProtectedStep(cred) => blogResp'.status \notin {"401", "403"}
      ]_vars

\* A post was created with a credential that login issued.
C4_Witness ==
    /\ issued # {}
    /\ blogResp.op = "create"
    /\ blogResp.status = "201"

(***************************************************************************)
(* Blog store: the claims (SpecStore).                                     *)
(***************************************************************************)
RECURSIVE PublishedOnly(_)
PublishedOnly(posts) ==
    IF posts = <<>> THEN <<>>
    ELSE IF Head(posts).status = "published"
         THEN <<Head(posts)>> \o PublishedOnly(Tail(posts))
         ELSE PublishedOnly(Tail(posts))

\* C6: GET /api/blogs returns exactly the stored posts whose status is
\* 'published', in stored order, and none whose status is 'draft'; GET
\* /api/admin/blogs with the admin's credential returns every stored post.
C6_Lists ==
    [][/\ ListPublished =>
             /\ blogResp'.posts = PublishedOnly(blogsFile.data)
             /\ \A i \in DOMAIN blogResp'.posts : blogResp'.posts[i].status # "draft"
             /\ blogsFile'.data = blogsFile.data
       /\ \A cred \in issued :
             ListAll(cred) =>
                blogResp'.posts = blogsFile.data /\ blogsFile'.data = blogsFile.data
      ]_vars

\* The public list was asked for while a draft, a published post and another
\* were stored, and it held fewer posts than the store.
C6_Witness ==
    /\ blogResp.op = "list_published"
    /\ Len(blogResp.posts) >= 1
    /\ Len(blogResp.posts) < Len(blogsFile.data)
    /\ \E i \in DOMAIN blogsFile.data : blogsFile.data[i].status = "archived"

NoPostHasId(id) == \A i \in DOMAIN blogsFile.data : Get(blogsFile.data[i], "id") # id

\* C8 as amended: an update naming an id that no stored post has is answered
\* 404, schedules nothing and leaves the stored posts as they were: an existing
\* blogs.json is not written, a missing one is created holding the empty list.
C8_UpdateUnknownId ==
    [][\A cred \in issued, id \in PostIds(MaxStorePosts), body \in StoreBodies :
          UpdateBlog(cred, id, body) /\ NoPostHasId(id) =>
             /\ blogResp'.status = "404"
             /\ blogsFile' = IF blogsFile.exists THEN blogsFile
                             ELSE [exists |-> TRUE, data |-> <<>>]
             /\ timers' = timers /\ timerCount' = timerCount
      ]_vars

\* C8 as claimed: an update naming an id that no stored post has is answered
\* 404, schedules nothing and leaves blogs.json as it was, its contents and
\* whether it exists.
C8_StoreFileUntouched ==
    [][\A cred \in issued, id \in PostIds(MaxStorePosts), body \in StoreBodies :
          UpdateBlog(cred, id, body) /\ NoPostHasId(id) =>
             /\ blogResp'.status = "404"
             /\ blogsFile' = blogsFile
             /\ timers' = timers /\ timerCount' = timerCount
      ]_vars

\* An update was answered 404 while posts were stored.
C8_Witness ==
    /\ blogResp.op = "update"
    /\ blogResp.status = "404"
    /\ Len(blogsFile.data) > 0

\* C10: no two stored posts have the same identifier.
C10_UniqueIds ==
    \A i, j \in DOMAIN blogsFile.data :
        i # j => Get(blogsFile.data[i], "id") # Get(blogsFile.data[j], "id")

\* C11: an update, whatever fields its body carries, leaves the date of every
\* stored post as it was (an update keeps each post at its place in the
\* array, so the posts are compared place by place).
C11_DateNeverChanges ==
    [][\A cred \in issued, id \in PostIds(MaxStorePosts), body \in StoreBodies :
          UpdateBlog(cred, id, body) =>
             \A i \in DOMAIN blogsFile.data :
                Get(blogsFile'.data[i], "date") = Get(blogsFile.data[i], "date")
      ]_vars

\* The array without the posts whose id is the given one, in order.
RECURSIVE Without(_, _)
Without(blogs, id) ==
    IF blogs = <<>> THEN <<>>
    ELSE IF Get(Head(blogs), "id") = id THEN Without(Tail(blogs), id)
    ELSE <<Head(blogs)>> \o Without(Tail(blogs), id)

\* C16: a delete by the admin, for an id that some stored post has, is
\* answered 200 and removes the posts with that id and no other, the rest
\* keeping their order, so that no stored post has the id afterwards; for an
\* id that no stored post has it is answered 404 and the stored posts stay
\* as they were.  (A second delete of the same id is of the latter kind, and
\* the lists are drawn from the stored posts.)
C16_Delete ==
    [][\A cred \in issued, id \in PostIds(MaxStorePosts) :
          DeleteBlog(cred, id) =>
             IF NoPostHasId(id)
             THEN /\ blogResp'.status = "404"
                  /\ blogsFile'.data = blogsFile.data
             ELSE /\ blogResp'.status = "200"
                  /\ blogsFile'.exists
                  /\ blogsFile'.data = Without(blogsFile.data, id)
                  /\ \A i \in DOMAIN blogsFile'.data :
                        Get(blogsFile'.data[i], "id") # id
                  /\ Len(blogsFile'.data) < Len(blogsFile.data)
      ]_vars

\* The first of two posts was deleted: the second is what the store holds.
C16_Witness ==
    /\ blogResp.op = "delete"
    /\ blogResp.status = "200"
    /\ Len(blogsFile.data) = 1
    /\ blogsFile.data[1].id = randomUUID(1)
    /\ uuidCount = 2

\* C17: a create by the admin is answered 201 and appends one post after
\* the stored ones, which stay as they were and in order.  The new post has
\* the body's fields, except that its id is the fresh UUID and its date the
\* day of the request, whatever id or date the body carries, and that its
\* status is 'draft' when the body's is missing or empty.
C17_Create ==
    [][\A cred \in issued, body \in StoreBodies :
          CreateBlog(cred, body) =>
             /\ blogResp'.status = "201"
             /\ blogsFile'.exists
             /\ Len(blogsFile'.data) = Len(blogsFile.data) + 1
             /\ SubSeq(blogsFile'.data, 1, Len(blogsFile.data)) = blogsFile.data
             /\ LET post == blogsFile'.data[Len(blogsFile'.data)] IN
                   /\ DOMAIN post = DOMAIN body \cup {"id", "date", "status"}
                   /\ post.id = randomUUID(uuidCount)
                   /\ post.id \notin {Get(blogsFile.data[i], "id") : i \in DOMAIN blogsFile.data}
                   /\ post.date = ISODate(now)
                   /\ post.date # ForeignDate
                   /\ post.status = IF Get(body, "status") \in {Undefined, ""}
                                    THEN "draft" ELSE body.status
                   /\ \A f \in DOMAIN body \ {"id", "date", "status"} : post[f] = body[f]
      ]_vars

\* A second post was created, a draft, after a first that is published.
C17_Witness ==
    /\ blogResp.op = "create"
    /\ blogResp.status = "201"
    /\ Len(blogsFile.data) = 2
    /\ blogsFile.data[1].status = "published"
    /\ blogsFile.data[2].status = "draft"
    /\ blogsFile.data[2].id = randomUUID(1)
    /\ blogsFile.data[2].date = ISODate(now)

(***************************************************************************)
(* Notifications and subscribers: the claims (SpecNotify).                 *)
(***************************************************************************)
NotificationMails == SelectSeq(mailCalls, LAMBDA m : m.kind = "notification")

StoredSubscribers == IF subscribersFile.exists THEN subscribersFile.data ELSE <<>>

\* The timer a publish event sets: due after the delay, for the post as stored.
TimerFor(post) == [due |-> now + NotifyDelay, post |-> post]

PublishingCreate ==
    \A cred \in issued, body \in NotifyBodies :
        CreateBlog(cred, body) =>
            /\ mailCalls' = mailCalls
            /\ IF Get(body, "status") = "published"
               THEN /\ timers' = Append(timers,
                            TimerFor(blogsFile'.data[Len(blogsFile'.data)]))
                    /\ timerCount' = timerCount + 1
               ELSE timers' = timers /\ timerCount' = timerCount

PublishingUpdate ==
    \A cred \in issued, id \in PostIds(MaxNotifyPosts), body \in NotifyBodies :
        UpdateBlog(cred, id, body) =>
            /\ mailCalls' = mailCalls
            /\ IF \E i \in DOMAIN blogsFile.data :
                    /\ blogsFile.data[i].id = id
                    /\ blogsFile.data[i].status = "draft"
                    /\ blogsFile'.data[i].status = "published"
               THEN \E i \in DOMAIN blogsFile.data :
                    /\ timers' = Append(timers, TimerFor(blogsFile'.data[i]))
                    /\ timerCount' = timerCount + 1
               ELSE timers' = timers /\ timerCount' = timerCount

\* A timer runs once the delay is over, and is gone when it has run.
TimerRuns ==
    FireTimer =>
        /\ Head(timers).due <= now
        /\ timers' = Tail(timers)
        /\ IF StoredSubscribers = <<>>
           THEN mailCalls' = mailCalls
           ELSE /\ Len(mailCalls') = Len(mailCalls) + 1
                /\ SubSeq(mailCalls', 1, Len(mailCalls)) = mailCalls
                /\ mailCalls'[Len(mailCalls')].kind = "notification"
                /\ mailCalls'[Len(mailCalls')].to = StoredSubscribers
                /\ mailCalls'[Len(mailCalls')].title = Get(Head(timers).post, "title")

\* Nothing but a timer sends a notification, and the clock waits for a timer
\* that is due.
OnlyTimersNotify ==
    /\ ~FireTimer => mailCalls' = mailCalls /\ Len(timers') >= Len(timers)
    /\ now' # now => \A i \in DOMAIN timers : timers[i].due > now

\* C5 as amended: a post created 'published' sets one timer, a post created
\* 'draft' or with no status sets none, and an update sets one exactly when it
\* takes the post from 'draft' to 'published'.  When the delay is over the
\* timer runs once: if the subscriber store is not empty it sends one email,
\* addressed to every stored subscriber and carrying the post's title; if the
\* store is empty or missing it sends none.  Nothing else sends a notification.
C5_PublishNotifiesOnce ==
    /\ [][PublishingCreate /\ PublishingUpdate /\ TimerRuns /\ OnlyTimersNotify]_vars
    /\ [](Len(NotificationMails) <= timerCount - Len(timers))

\* C5 as claimed: every publish event whose delay is over and whose timer has
\* run has resulted in exactly one notification email.
C5_EveryPublishNotifies ==
    Len(NotificationMails) = timerCount - Len(timers)

\* A post created as a draft and published by a later update has been
\* announced to two subscribers.
C5_Witness ==
    /\ Len(NotificationMails) = 1
    /\ Len(NotificationMails[1].to) = 2
    /\ NotificationMails[1].title = "t1"
    /\ timerCount = 1 /\ timers = <<>>
    /\ blogResp.op # "create"

HasNoDuplicates(array) ==
    \A i, j \in DOMAIN array : i # j => array[i] # array[j]

\* C7: subscribing an email the store lacks is answered 200 and appends it; an
\* email already stored is answered 409 and an empty or missing one 400, both
\* leaving the store as it was; so no email is ever stored twice.
C7_Subscribe ==
    /\ [][\A email \in Emails :
             Subscribe(email) =>
                IF email \in {Undefined, ""}
                THEN blogResp'.status = "400" /\ subscribersFile' = subscribersFile
                ELSE IF \E i \in DOMAIN StoredSubscribers : StoredSubscribers[i] = email
                THEN blogResp'.status = "409" /\ subscribersFile' = subscribersFile
                ELSE /\ blogResp'.status = "200"
                     /\ subscribersFile'.exists
                     /\ subscribersFile'.data = Append(StoredSubscribers, email)
         ]_vars
    /\ []HasNoDuplicates(StoredSubscribers)

\* With two emails stored, a third request for one of them was answered 409.
C7_Witness ==
    /\ blogResp.op = "subscribe"
    /\ blogResp.status = "409"
    /\ Len(StoredSubscribers) = 2

(***************************************************************************)
(* The blog store on a failing file system: the claims (SpecFault).        *)
(***************************************************************************)
\* C18: when a create, an update or a delete is answered with success, what
\* blogs.json holds afterwards is what it held before with the change
\* applied: the new post after the old ones, the updated post carrying the
\* body's fields and the others as they were, no post with the deleted id.
C18_SuccessIsStored ==
    [][/\ \A cred \in issued, body \in FaultBodies :
             (CreateBlog(cred, body) /\ blogResp'.status = "201") =>
                /\ Len(blogsFile'.data) = Len(blogsFile.data) + 1
                /\ SubSeq(blogsFile'.data, 1, Len(blogsFile.data)) = blogsFile.data
                /\ blogsFile'.data[Len(blogsFile'.data)].id = randomUUID(uuidCount)
       /\ \A cred \in issued, id \in PostIds(MaxFaultPosts), body \in FaultBodies :
             (UpdateBlog(cred, id, body) /\ blogResp'.status = "200") =>
                /\ Len(blogsFile'.data) = Len(blogsFile.data)
                /\ \A i \in DOMAIN blogsFile.data :
                      IF Get(blogsFile.data[i], "id") = id
                      THEN \A f \in DOMAIN body : Get(blogsFile'.data[i], f) = body[f]
                      ELSE blogsFile'.data[i] = blogsFile.data[i]
       /\ \A cred \in issued, id \in PostIds(MaxFaultPosts) :
             (DeleteBlog(cred, id) /\ blogResp'.status = "200") =>
                \A i \in DOMAIN blogsFile'.data : Get(blogsFile'.data[i], "id") # id
      ]_vars

(***************************************************************************)
(* Concurrent store requests: the claims (SpecRace).                       *)
(***************************************************************************)
Acked(r) == reqs[r].pc = "done" /\ reqs[r].status \in {"200", "201"}

StoredIds == {Get(blogsFile.data[i], "id") : i \in DOMAIN blogsFile.data}

\* The change request r was acknowledged for is not in the store, and no
\* acknowledged request has taken it out: a created post is missing though
\* no delete of it was acknowledged, a deleted post is stored, an updated
\* post lacks a field of the update (the updates of this model all set the
\* same value), a subscribed email is not stored.
Lost(r) ==
    /\ Acked(r)
    /\ CASE reqs[r].op = "create" ->
                /\ reqs[r].made \notin StoredIds
                /\ ~\E q \in DOMAIN reqs :
                        Acked(q) /\ reqs[q].op = "delete" /\ reqs[q].id = reqs[r].made
         [] reqs[r].op = "delete" -> reqs[r].id \in StoredIds
         [] reqs[r].op = "update" ->
                \E i \in DOMAIN blogsFile.data :
                    /\ Get(blogsFile.data[i], "id") = reqs[r].id
                    /\ \E f \in DOMAIN reqs[r].body :
                            Get(blogsFile.data[i], f) # reqs[r].body[f]
         [] OTHER ->
                ~\E i \in DOMAIN subscribersFile.data :
                        subscribersFile.data[i] = reqs[r].email

\* Requests r and q were in flight together, and both are for the same store.
Overlapped(r, q) ==
    /\ r # q
    /\ r \in reqs[q].with \/ q \in reqs[r].with
    /\ (reqs[r].op = "subscribe") <=> (reqs[q].op = "subscribe")

PendingTimersKept ==
    FireTimer \/ (Len(timers') >= Len(timers) /\ SubSeq(timers', 1, Len(timers)) = timers)

\* Some stored post has the id and the status.
StoredWith(id, status) ==
    \E i \in DOMAIN blogsFile.data :
        Get(blogsFile.data[i], "id") = id /\ Get(blogsFile.data[i], "status") = status

\* C14: every publish event sets a timer of its own and nothing cancels one.
\* A delete sets and removes none; an update that turns a draft into a
\* published post adds one, however often the post was published before, and
\* any other update (published to published among them) adds none; no step
\* but the timer's own run removes a pending timer; and a timer whose delay
\* is over can run whether or not its post is still stored or published.
C14_TimersNotCancelled ==
    /\ [][/\ PendingTimersKept
          /\ \A cred \in issued, id \in PostIds(MaxNotifyPosts) :
                DeleteBlog(cred, id) => timers' = timers
          /\ \A cred \in issued, id \in PostIds(MaxNotifyPosts), body \in NotifyBodies :
                UpdateBlog(cred, id, body) =>
                   IF StoredWith(id, "draft") /\ Get(body, "status") = "published"
                   THEN Len(timers') = Len(timers) + 1 /\ timerCount' = timerCount + 1
                   ELSE timers' = timers /\ timerCount' = timerCount
         ]_vars
    /\ []((timers # <<>> /\ Head(timers).due <= now) => ENABLED FireTimer)

\* A post was published, set back to draft and published again within the
\* delay, and then deleted: the first notification was sent all the same and
\* the second timer is due.
C14_Witness ==
    /\ timerCount = 2
    /\ Len(NotificationMails) = 1
    /\ NotificationMails[1].id = randomUUID(0)
    /\ Len(timers) = 1
    /\ timers[1].due = NotifyDelay
    /\ timers[1].post.id = randomUUID(0)
    /\ now = NotifyDelay
    /\ blogsFile.data = <<>>

\* C15: a notification goes to the subscribers stored when its timer runs.
\* A pending timer holds its post and nothing of the subscribers; when it
\* runs, one email addressed to all of the emails then stored is sent, and
\* none if the store is empty or missing.
C15_RecipientsWhenTimerRuns ==
    /\ [][FireTimer =>
             IF ~subscribersFile.exists \/ subscribersFile.data = <<>>
             THEN mailCalls' = mailCalls
             ELSE /\ Len(mailCalls') = Len(mailCalls) + 1
                  /\ SubSeq(mailCalls', 1, Len(mailCalls)) = mailCalls
                  /\ mailCalls'[Len(mailCalls')].kind = "notification"
                  /\ mailCalls'[Len(mailCalls')].to = subscribersFile.data
         ]_vars
    /\ [](\A i \in DOMAIN timers : DOMAIN timers[i] = {"due", "post"})

\* The last request was a subscription, so it followed the publish event;
\* the one notification went to both stored emails, the new one among them.
C15_Witness ==
    /\ blogResp.op = "subscribe"
    /\ blogResp.status = "200"
    /\ timerCount = 1
    /\ timers = <<>>
    /\ Len(NotificationMails) = 1
    /\ Len(StoredSubscribers) = 2
    /\ NotificationMails[1].to = StoredSubscribers

\* The timers a step has added.
AddedTimers == SubSeq(timers', Len(timers) + 1, Len(timers'))

\* C19: a notification tells of the post as the publish event stored it.  The
\* timer a create or an update sets holds the post as that request has just
\* stored it; no later request changes what a pending timer holds; and the
\* email a timer sends carries the title, excerpt and id of the post it holds.
C19_ContentAtPublish ==
    [][/\ PendingTimersKept
       /\ ~FireTimer =>
             \A i \in DOMAIN AddedTimers :
                \E k \in DOMAIN blogsFile'.data :
                   /\ AddedTimers[i].post = blogsFile'.data[k]
                   /\ blogsFile'.data[k] # IF k \in DOMAIN blogsFile.data
                                           THEN blogsFile.data[k] ELSE <<>>
       /\ (FireTimer /\ StoredSubscribers # <<>>) =>
             LET mail == mailCalls'[Len(mailCalls')]
                 post == Head(timers).post
             IN  /\ mail.title = Get(post, "title")
                 /\ mail.excerpt = Get(post, "excerpt")
                 /\ mail.id = Get(post, "id")
      ]_vars

\* A post published under one title was given another, as a draft, and
\* published again within the delay: the first email carries the first
\* title, the stored post and the pending second timer the second.
C19_Witness ==
    /\ Len(NotificationMails) = 1
    /\ NotificationMails[1].title = "t1"
    /\ Len(timers) = 1
    /\ timers[1].due = NotifyDelay
    /\ now = NotifyDelay
    /\ Get(timers[1].post, "title") = "t2"
    /\ Len(blogsFile.data) = 1
    /\ Get(blogsFile.data[1], "title") = "t2"
    /\ blogsFile.data[1].id = NotificationMails[1].id

(***************************************************************************)
(* The specifications.                                                     *)
(***************************************************************************)
\* Nothing has called crypto.randomUUID or transporter.sendMail yet.
SharedInit ==
    /\ uuidCount = 0
    /\ mailCalls = <<>>
    /\ blogsFault = "none"
    /\ running = 0
    /\ reqs = <<>>

\* The blog routes at rest, in the specifications of the other subsystems.
BlogOff == BlogInit /\ issued = {}

InitContact == SharedInit /\ ContactInit /\ ChatOff /\ BlogOff

SpecContact == InitContact /\ [][ContactNext]_vars

InitChat == SharedInit /\ ContactInit /\ ChatInit /\ BlogOff

SpecChat == InitChat /\ [][ChatNext]_vars

InitAuth == SharedInit /\ ContactInit /\ ChatOff /\ BlogInit /\ issued = {}

SpecAuth == InitAuth /\ [][AuthNext]_vars

InitStore == SharedInit /\ ContactInit /\ ChatOff /\ BlogInit /\ issued # {}

SpecStore == InitStore /\ [][StoreNext]_vars

InitFault == SharedInit /\ ContactInit /\ ChatOff /\ BlogInit /\ issued # {}

SpecFault == InitFault /\ [][FaultNext]_vars

InitRace == SharedInit /\ ContactInit /\ ChatOff /\ BlogInit /\ issued # {}

SpecRace == InitRace /\ [][RaceNext]_vars

InitNotify == SharedInit /\ ContactInit /\ ChatOff /\ BlogInit /\ issued # {}

SpecNotify == InitNotify /\ [][NotifyNext]_vars

====
